---------------------------- MODULE Spec2Model ----------------------------
(***************************************************************************)
(* Model of src/profile.py: PerformanceProfiler (a background thread that  *)
(* samples CPU / memory / GPU counters and paints bar gauges with curses)  *)
(* and StdOutWrapper (the deque that captures the host program's writes).  *)
(*                                                                         *)
(* Two threads are modelled: the host (the client of the class, with       *)
(* __main__ as the reference client) and the worker (the thread that runs  *)
(* PerformanceProfiler.profile).  Every statement of profile() that        *)
(* touches state shared with the host is one step of the worker.           *)
(* SpecRestart adds the thread of a second start() call.  SpecCpu,         *)
(* SpecMem and SpecRender run single steps of a refresh over wider inputs. *)
(*                                                                         *)
(* Texts are sequences of one-character strings.  Floats are records       *)
(* [n, d]: the ratio n/d when d > 0, and +/-DBL_MAX (what nan_to_num makes *)
(* of +/-inf) when d = 0.                                                  *)
(***************************************************************************)
EXTENDS Integers, Sequences, FiniteSets, TLC

\* ------------------------------------------------------------------ bounds

\* number of write() calls the host issues in one run
MaxWrites == 2

\* number of deinit() calls the host issues in one run
MaxDeinit == 2

\* capacity K of the OutputBuffer, as the specification states it
K == 1

\* ------------------------------------------------------------------- texts

\* the text the host passes to its k-th write(): one line, every line different
Line(k) == << <<"a">>, <<"b">>, <<"c">>, <<"d">>, <<"e">> >>[k] \o <<"\n">>

RECURSIVE ConcatAll(_)
\* the texts of a list one after the other, nothing in between
ConcatAll(ts) ==
    IF ts = <<>> THEN <<>> ELSE Head(ts) \o ConcatAll(Tail(ts))

RECURSIVE Join(_, _)
\* sep.join(ts): the separator between every two neighbours
Join(sep, ts) ==
    IF ts = <<>> THEN <<>>
    ELSE IF Len(ts) = 1 THEN ts[1]
    ELSE ts[1] \o sep \o Join(sep, Tail(ts))

\* the texts of a list of queue entries
TextsOf(entries) == [i \in 1..Len(entries) |-> entries[i].text]

\* the ids of a list of queue entries
IdsOf(entries) == { entries[i].id : i \in 1..Len(entries) }


\* text * k: k copies of a character, none for k <= 0
Rep(c, k) == IF k <= 0 THEN <<>> ELSE [i \in 1..k |-> c]

\* str.ljust(w): padded on the right to width w, unchanged when already longer
Ljust(s, w) == IF Len(s) >= w THEN s ELSE s \o Rep(" ", w - Len(s))

\* str(c) for a one-digit core index
Digit(c) == <<"0", "1", "2", "3", "4", "5", "6", "7", "8", "9">>[c + 1]

\* ------------------------------------------------------------------ floats

\* the float n/d for a divisor d # 0, the sign carried by the numerator
Ratio(n, d) == IF d > 0 THEN [n |-> n, d |-> d] ELSE [n |-> 0 - n, d |-> 0 - d]

\* +DBL_MAX and -DBL_MAX: what nan_to_num returns for +inf and -inf
FloatMax == [n |-> 1, d |-> 0]
FloatMin == [n |-> 0 - 1, d |-> 0]

\* numpy's usage / total on integers followed by nan_to_num:
\* 0/0 is nan and becomes 0.0, x/0 is +/-inf and becomes +/-DBL_MAX
NanToNumDivide(usage, total) ==
    IF total # 0 THEN Ratio(usage, total)
    ELSE IF usage = 0 THEN [n |-> 0, d |-> 1]
    ELSE IF usage > 0 THEN FloatMax ELSE FloatMin

\* Python's int / int; the caller guards the zero divisor (ZeroDivisionError)
TrueDiv(a, b) == Ratio(a, b)

\* int(ticks * metric) for a finite float: truncation toward zero
IntOfProduct(t, f) ==
    IF f.n >= 0 THEN (t * f.n) \div f.d ELSE 0 - ((t * (0 - f.n)) \div f.d)

\* ------------------------------------------------------- profiler constants

\* logical core count reported by nproc
NUM_CORE == 2

\* rows of the gauge grid (default of __init__)
rows == 3

\* width of a bar in ticks
ticks == 4

\* labels of the non-CPU gauges, in label order
GPU_COL == << <<"G","P","U","0"," ">>, <<"V","R","A","M"," ">>,
              <<"T","E","M","P"," ">>, <<" ","D","R","A","M"," ">> >>

\* a fault of ceil: the quotient rounded down
CeilRoundsDown(n, r) == n \div r

\* ceil(n / r) for the n metrics of the grid and its r rows
Ceil(n, r) == (n + r - 1) \div r

\* "CPU" + str(c).ljust(2) for every core, then GPU_COL, then "" up to rows*cols
stats(ncore, r, cs) ==
    LET labelled == [c \in 1..ncore |->
                        <<"C","P","U">> \o Ljust(<<Digit(c - 1)>>, 2)]
                    \o GPU_COL
    IN  IF cs * r > Len(labelled)
        THEN labelled \o [d \in 1..(cs * r - Len(labelled)) |-> <<>>]
        ELSE labelled

\* the fields __init__ gives a profiler of ncore cores built with rows = r and
\* ticks = t: self.cols is ceil((NUM_CORE + len(GPU_COL)) / rows), and
\* self.STAT_COL the label grid, 1:1 to prof_buffer
PerformanceProfiler(ncore, r, t) ==
    LET cs == Ceil(ncore + Len(GPU_COL), r)
        labels == stats(ncore, r, cs)
    IN  [NUM_CORE |-> ncore, rows |-> r, ticks |-> t, cols |-> cs,
         STAT_COL |-> [i \in 0..r - 1 |->
                         [c \in 0..cs - 1 |-> labels[c + i * cs + 1]]]]

\* the empty data grid __init__ allocates
EmptyBuffer(obj) == [r \in 0..obj.rows - 1 |-> [c \in 0..obj.cols - 1 |-> <<>>]]

\* the prior snapshot of the first call of cpu_utilization: [[1] * 8] * NUM_CORE
FirstPrior(obj) == [c \in 1..obj.NUM_CORE |-> [k \in 1..8 |-> 1]]


\* ---------------------------------------------------------------- sampling

\* current - prior, per core and per counter (numpy subtract)
Subtract(metrics, prior) ==
    [c \in 1..Len(metrics) |-> [k \in 1..8 |-> metrics[c][k] - prior[c][k]]]

\* user + nice + system + idle + iowait + irq + softirq + steal
Total(d) == d[1] + d[2] + d[3] + d[4] + d[5] + d[6] + d[7] + d[8]

\* a fault of nbusy: the iowait delta left out
NbusyIdleOnly(d) == d[4]

\* nbusy = idle + iowait
Nbusy(d) == d[4] + d[5]

\* usage = total - nbusy
Usage(d) == Total(d) - Nbusy(d)

\* cpu_utilization(prior_metrics) for the provider output metrics: the list
\* of per-core usage / total; the second result of the call is metrics itself
cpu_utilization(prior_metrics, metrics) ==
    LET delta == Subtract(metrics, prior_metrics)
    IN  [c \in 1..Len(metrics) |-> NanToNumDivide(Usage(delta[c]), Total(delta[c]))]

\* mem_utilization() for the two numbers free prints: int(used) / int(total)
mem_utilization(used, total) == TrueDiv(used, total)

\* gpu_utilization() for one nvidia-smi line: (temp, mem_util, gpu_util),
\* temp the provider's text, mem_util a float, gpu_util the provider's text
\* without its last character (gpu_util[:-1], the end of the line)
gpu_utilization(g) ==
    [temp |-> g.temp, mem |-> TrueDiv(g.mem_used, g.mem_total),
     util |-> SubSeq(g.util, 1, Len(g.util) - 1)]

\* a float metric and a text metric, as isinstance(metric, str) tells them apart
Float(f) == [str |-> FALSE, v |-> f]
Str(s) == [str |-> TRUE, v |-> s]

\* a fault of the metric list: the GPU values in the order gpu_utilization
\* returns them
MetricListAsReturned(cpu, gpu, mem) ==
    [c \in 1..Len(cpu) |-> Float(cpu[c])]
    \o << Str(gpu.temp), Float(gpu.mem), Str(gpu.util), Float(mem) >>

\* the metric list profile() hands to compute_bars
MetricList(cpu, gpu, mem) ==
    [c \in 1..Len(cpu) |-> Float(cpu[c])]
    \o << Str(gpu.util), Float(gpu.mem), Str(gpu.temp), Float(mem) >>

\* "[" + ("|" * int(ticks * metric)).ljust(ticks) + "]"
Bar(obj, f) ==
    <<"[">> \o Ljust(Rep("|", IntOfProduct(obj.ticks, f)), obj.ticks) \o <<"]">>

\* metric.ljust(ticks + 4 - len(metric))
Scalar(obj, s) == Ljust(s, obj.ticks + 4 - Len(s))

\* int() of an infinite product raises OverflowError
BarRaises(m) == ~m.str /\ m.v.d = 0

RECURSIVE compute_bars(_, _, _, _)
\* compute_bars(metrics): the cells filled in place, one per metric, from
\* elements_placed on; raised is TRUE when a metric made int() raise, the
\* cells before it already written
compute_bars(obj, buf, metrics, elements_placed) ==
    IF elements_placed >= Len(metrics) THEN [buf |-> buf, raised |-> FALSE]
    ELSE LET metric == metrics[elements_placed + 1]
             r == elements_placed \div obj.cols
             c == elements_placed % obj.cols
         IN  IF BarRaises(metric) THEN [buf |-> buf, raised |-> TRUE]
             ELSE compute_bars(obj,
                    [buf EXCEPT ![r][c] = IF metric.str THEN Scalar(obj, metric.v)
                                          ELSE Bar(obj, metric.v)],
                    metrics, elements_placed + 1)

\* render_bars(): row i of the gauge window is the " "-joined (label, metric)
\* pairs of row i, each pair joined by " "
render_bars(obj, buf) ==
    [i \in 0..obj.rows - 1 |->
        Join(<<" ">>, [c \in 1..obj.cols |->
                         Join(<<" ">>, <<obj.STAT_COL[i][c - 1], buf[i][c - 1]>>)])]

\* --------------------------------------------------------- provider outputs

\* two /proc/stat snapshots
CpuReadings ==
    { [c \in 1..NUM_CORE |-> <<0, 0, 0, 100, 0, 0, 0, 0>>],
      [c \in 1..NUM_CORE |-> <<10, 0, 0, 190, 0, 0, 0, 0>>] }

\* the two numbers of one "free -m" reading
MemReadings == { <<2048, 8192>> }

\* one nvidia-smi reading
GpuReadings ==
    { [temp |-> <<"4","5","C">>, mem_used |-> 1, mem_total |-> 4,
       util |-> <<"3","0","%","\n">>] }


\* -------------------------------------------------------------------- state

VARIABLES
    sys_stdout,      \* sys.stdout: "wrapper" (self.out) or "original" (sys.__stdout__)
    cls_stdout,      \* PerformanceProfiler.stdout: the "method" or "original"
    queue,           \* StdOutWrapper.queue: the captured writes, oldest first
    run_thread,      \* self.run_thread: "unset" before start(), then "True" / "False"
    surface,         \* curses: "visual" after initscr(), "ended" after endwin()
    out_win,         \* the text added to the scrollback window
    prof_win,        \* the rows painted in the gauge window
    prof_buffer,     \* self.prof_buffer: the rendered cell of every metric
    pcW,             \* where the worker thread is in profile()
    out,             \* the worker's local out: the result of the read() in course
    snap,            \* the temporary list(self.queue) of the read() in course
    mem_util,        \* the worker's local mem_util
    cpu_util,        \* the worker's local cpu_util
    prior_cpu_util,  \* the worker's local prior_cpu_util
    gpu,             \* the worker's locals gpu_temp, gpu_mem, gpu_util
    pcH,             \* where the host thread is
    deinits,         \* deinit() calls made so far
    log,             \* history: the text of every captured write, by id
    ret,             \* history: how many times read() returned each write
    lo,              \* history: writes captured when the last read() returned
    hi,              \* history: writes captured when the read() in course listed the queue
    cyclesAfterStop, \* history: sample-render cycles begun after stop()
    teardownEffects, \* history: deinit() calls that changed the surface
    tornAt,          \* history: writes captured at the first deinit(), -1 before
    cpu_prev,        \* history: the prior snapshot of the last cpu_utilization call
    raisedAt,        \* history: where in profile() an exception was raised, "" if none
    self,            \* the fields __init__ sets: NUM_CORE, rows, ticks, cols, STAT_COL
    w2,              \* the thread a second start() creates: its position and locals
    readings,        \* history: the last two /proc/stat outputs, older first
    mem_reading,     \* history: the two numbers of the last "free -m" output
    fresh,           \* history: the values sampled in the refresh in course
    resumed          \* history: the first worker began a cycle after a stop()

vars == << sys_stdout, cls_stdout, queue, run_thread, surface, out_win, prof_win,
           prof_buffer, pcW, out, snap, mem_util, cpu_util, prior_cpu_util, gpu,
           pcH, deinits, log, ret, lo, hi, cyclesAfterStop, teardownEffects, tornAt,
           cpu_prev, raisedAt, self, w2, readings, mem_reading, fresh, resumed >>

hostVars == << sys_stdout, cls_stdout, run_thread, surface, pcH, deinits,
               teardownEffects, tornAt >>
sampleVars == << mem_util, cpu_util, prior_cpu_util, gpu, cpu_prev, readings,
                mem_reading, fresh >>
paintVars == << out_win, prof_win, prof_buffer >>
readVars == << out, snap, ret, lo, hi >>
workerVars == << pcW, raisedAt, resumed >>
objectVars == << self, w2 >>

\* the thread of a start() not made yet
NoThread ==
    [pc |-> "unstarted", out |-> <<>>, snap |-> <<>>, mem_util |-> [n |-> 0, d |-> 1],
     cpu_util |-> <<>>, prior_cpu_util |-> <<>>,
     gpu |-> [temp |-> <<>>, mem |-> [n |-> 0, d |-> 1], util |-> <<>>]]

\* the worker is inside profile(): started, and neither returned, raised nor killed
WorkerRunning == pcW \notin {"unstarted", "done", "crashed", "killed"}

\* the thread of the second start() is inside profile()
SecondRunning == w2.pc \notin {"unstarted", "done", "crashed", "killed"}

\* stop() has been called at least once: the host is past it, or has already
\* called start() again
StopIssued == pcH \in {"stopped", "torn", "exited"} \/ w2.pc # "unstarted"

\* the state after PerformanceProfiler() returns
Init ==
    /\ sys_stdout = "wrapper"
    /\ cls_stdout = "method"
    /\ queue = <<>>
    /\ run_thread = "unset"
    /\ surface = "visual"
    /\ out_win = <<>>
    /\ self = PerformanceProfiler(NUM_CORE, rows, ticks)
    /\ prof_win = [i \in 0..rows - 1 |-> <<>>]
    /\ prof_buffer = EmptyBuffer(self)
    /\ pcW = "unstarted"
    /\ out = <<>>
    /\ snap = <<>>
    /\ mem_util = [n |-> 0, d |-> 1]
    /\ cpu_util = <<>>
    /\ prior_cpu_util = FirstPrior(self)
    /\ gpu = [temp |-> <<>>, mem |-> [n |-> 0, d |-> 1], util |-> <<>>]
    /\ pcH = "constructed"
    /\ deinits = 0
    /\ log = <<>>
    /\ ret = [i \in 1..MaxWrites |-> 0]
    /\ lo = 0
    /\ hi = 0
    /\ cyclesAfterStop = 0
    /\ teardownEffects = 0
    /\ tornAt = 0 - 1
    /\ cpu_prev = FirstPrior(self)
    /\ raisedAt = ""
    /\ w2 = NoThread
    /\ readings = << FirstPrior(self), prior_cpu_util >>
    /\ mem_reading = <<0, 0>>
    /\ fresh = {}
    /\ resumed = FALSE

\* --------------------------------------------------------------- the host

\* start(): the thread is created, run_thread set, the thread started
start ==
    /\ pcH = "constructed"
    /\ run_thread' = "True"
    /\ pcW' = "prep"
    /\ pcH' = "running"
    /\ UNCHANGED << sys_stdout, cls_stdout, queue, surface, deinits, log,
                    cyclesAfterStop, teardownEffects, tornAt >>
    /\ UNCHANGED << sampleVars, paintVars, readVars >>
    /\ UNCHANGED << raisedAt, resumed, objectVars >>

\* self.queue.append(out)
deque_append(q, e) == Append(q, e)

\* a write of the host to sys.stdout: StdOutWrapper.write(text) while the
\* stream is the wrapper, the terminal otherwise
write(text) ==
    /\ pcH \in {"running", "torn"}
    /\ Len(log) < MaxWrites
    /\ IF sys_stdout = "wrapper"
       THEN /\ queue' = deque_append(queue, [id |-> Len(log) + 1, text |-> text])
            /\ log' = Append(log, text)
       ELSE UNCHANGED << queue, log >>
    /\ UNCHANGED << hostVars, workerVars, cyclesAfterStop >>
    /\ UNCHANGED << sampleVars, paintVars, readVars, objectVars >>

\* __main__: an exception in the print loop enters the except clause
main_except ==
    /\ pcH = "running"
    /\ pcH' = "except"
    /\ UNCHANGED << sys_stdout, cls_stdout, run_thread, surface, deinits,
                    teardownEffects, tornAt, queue, log, workerVars, cyclesAfterStop >>
    /\ UNCHANGED << sampleVars, paintVars, readVars, objectVars >>

\* stop(): the flag is cleared and the call returns
stop ==
    /\ pcH = "except"
    /\ run_thread' = "False"
    /\ pcH' = "stopped"
    /\ UNCHANGED << sys_stdout, cls_stdout, surface, deinits, teardownEffects,
                    tornAt, queue, log, workerVars, cyclesAfterStop >>
    /\ UNCHANGED << sampleVars, paintVars, readVars, objectVars >>

\* a fault of endwin: a second call brings the visual mode back
endwin_toggles(s) == IF s = "visual" THEN "ended" ELSE "visual"

\* curses.endwin()
endwin(s) == "ended"

\* deinit(): the class attribute stdout is assigned, then endwin()
deinit ==
    /\ pcH \in {"stopped", "torn"}
    /\ deinits < MaxDeinit
    /\ cls_stdout' = "original"
    /\ surface' = endwin(surface)
    /\ teardownEffects' = IF surface' # surface THEN teardownEffects + 1
                          ELSE teardownEffects
    /\ deinits' = deinits + 1
    /\ tornAt' = IF tornAt < 0 THEN Len(log) ELSE tornAt
    /\ pcH' = "torn"
    /\ UNCHANGED << sys_stdout, run_thread, queue, log, workerVars, cyclesAfterStop >>
    /\ UNCHANGED << sampleVars, paintVars, readVars, objectVars >>

\* raise SystemExit: the process ends and takes the daemon thread with it
main_exit ==
    /\ pcH = "torn"
    /\ pcH' = "exited"
    /\ pcW' = IF WorkerRunning THEN "killed" ELSE pcW
    /\ w2' = IF SecondRunning THEN [w2 EXCEPT !.pc = "killed"] ELSE w2
    /\ UNCHANGED << sys_stdout, cls_stdout, run_thread, surface, deinits,
                    teardownEffects, tornAt, queue, log, cyclesAfterStop >>
    /\ UNCHANGED << sampleVars, paintVars, readVars >>
    /\ UNCHANGED << raisedAt, resumed, self >>

Host ==
    \/ start
    \/ write(Line(Len(log) + 1))
    \/ main_except
    \/ stop
    \/ deinit
    \/ main_exit

\* -------------------------------------------------------------- the worker

\* a fault of the loop: the flag is not consulted
LoopCondIgnoresFlag(flag) == TRUE

\* the condition of the loop of profile(): while self.run_thread
LoopCond(flag) == flag = "True"

\* a fault of clear: the queue is left as it is
deque_clear_keeps(q) == q

\* self.queue.clear()
deque_clear(q) == <<>>

\* " ".join(list(self.queue))
read_out(q) == Join(<<" ">>, TextsOf(q))

\* a provider call (check_output, or the parsing of its output) raises: nothing
\* in profile() catches it and the thread ends
ProviderError ==
    /\ pcW \in {"prep", "mem", "cpu", "gpu"}
    /\ pcW' = "crashed"
    /\ UNCHANGED << hostVars, queue, log, cyclesAfterStop >>
    /\ UNCHANGED << sampleVars, paintVars, readVars >>
    /\ raisedAt' = IF pcW' = "crashed" THEN pcW ELSE raisedAt
    /\ UNCHANGED << resumed, objectVars >>

\* the first call of cpu_utilization, before the loop
profile_prep ==
    /\ pcW = "prep"
    /\ \E metrics \in CpuReadings :
          /\ cpu_util' = cpu_utilization(FirstPrior(self), metrics)
          /\ prior_cpu_util' = metrics
          /\ cpu_prev' = FirstPrior(self)
          /\ readings' = << FirstPrior(self), metrics >>
    /\ pcW' = "while"
    /\ UNCHANGED << hostVars, queue, log, cyclesAfterStop, mem_util, gpu,
                    mem_reading, fresh >>
    /\ UNCHANGED << paintVars, readVars >>
    /\ UNCHANGED << raisedAt, resumed, objectVars >>

\* while self.run_thread: the flag is read once per iteration
profile_while ==
    /\ pcW = "while"
    /\ pcW' = IF LoopCond(run_thread) THEN "read" ELSE "done"
    /\ resumed' = (resumed \/ (LoopCond(run_thread) /\ StopIssued))
    /\ UNCHANGED << hostVars, queue, log, cyclesAfterStop >>
    /\ UNCHANGED << sampleVars, paintVars, readVars >>
    /\ UNCHANGED << raisedAt, objectVars >>

\* read(), first statement: out = " ".join(list(self.queue))
read_join ==
    /\ pcW = "read"
    /\ snap' = queue
    /\ out' = read_out(queue)
    /\ hi' = Len(log)
    /\ pcW' = "clear"
    /\ UNCHANGED << hostVars, queue, log, cyclesAfterStop, ret, lo >>
    /\ UNCHANGED << sampleVars, paintVars >>
    /\ UNCHANGED << raisedAt, resumed, objectVars >>

\* read(), second statement: self.queue.clear(), then return out
read_clear ==
    /\ pcW = "clear"
    /\ queue' = deque_clear(queue)
    /\ ret' = [i \in 1..MaxWrites |-> IF i \in IdsOf(snap) THEN ret[i] + 1 ELSE ret[i]]
    /\ snap' = <<>>
    /\ lo' = Len(log)
    /\ hi' = Len(log)
    /\ pcW' = "addstr"
    /\ UNCHANGED << hostVars, log, cyclesAfterStop, out >>
    /\ UNCHANGED << sampleVars, paintVars >>
    /\ UNCHANGED << raisedAt, resumed, objectVars >>

\* if out: self.out_win.addstr(out); self.out_win.refresh()
profile_addstr ==
    /\ pcW = "addstr"
    /\ out_win' = IF out # <<>> THEN out_win \o out ELSE out_win
    /\ pcW' = "timecheck"
    /\ UNCHANGED << hostVars, queue, log, cyclesAfterStop, prof_win, prof_buffer >>
    /\ UNCHANGED << sampleVars, readVars >>
    /\ UNCHANGED << raisedAt, resumed, objectVars >>

\* if time() - update >= self.refresh: the interval has elapsed, or has not
profile_timecheck ==
    /\ pcW = "timecheck"
    /\ \/ /\ pcW' = "mem"
          /\ cyclesAfterStop' = IF run_thread = "False" /\ cyclesAfterStop < 2
                                THEN cyclesAfterStop + 1 ELSE cyclesAfterStop
       \/ /\ pcW' = "while"
          /\ UNCHANGED cyclesAfterStop
    /\ UNCHANGED << hostVars, queue, log >>
    /\ UNCHANGED << sampleVars, paintVars, readVars >>
    /\ UNCHANGED << raisedAt, resumed, objectVars >>

\* mem_util = self.mem_utilization() for the provider output m; a zero divisor
\* raises ZeroDivisionError
sample_mem(m) ==
    /\ pcW = "mem"
    /\ IF m[2] = 0
       THEN pcW' = "crashed" /\ UNCHANGED mem_util
       ELSE pcW' = "cpu" /\ mem_util' = mem_utilization(m[1], m[2])
    /\ mem_reading' = m
    /\ fresh' = {"mem"}
    /\ UNCHANGED << hostVars, queue, log, cyclesAfterStop, cpu_util,
                    prior_cpu_util, gpu, cpu_prev, readings >>
    /\ UNCHANGED << paintVars, readVars >>
    /\ raisedAt' = IF pcW' = "crashed" THEN pcW ELSE raisedAt
    /\ UNCHANGED << resumed, objectVars >>

\* the memory sampling of one refresh
profile_mem == \E m \in MemReadings : sample_mem(m)

\* a fault of the CPU sampling: the prior snapshot is not replaced
sample_cpu_keeps_prior(metrics) ==
    /\ pcW = "cpu"
    /\ cpu_util' = cpu_utilization(prior_cpu_util, metrics)
    /\ prior_cpu_util' = prior_cpu_util
    /\ cpu_prev' = prior_cpu_util
    /\ readings' = << readings[2], metrics >>
    /\ fresh' = fresh \cup {"cpu"}
    /\ pcW' = "gpu"
    /\ UNCHANGED << hostVars, queue, log, cyclesAfterStop, mem_util, gpu,
                    mem_reading >>
    /\ UNCHANGED << paintVars, readVars >>
    /\ UNCHANGED << raisedAt, resumed, objectVars >>

\* cpu_util, prior_cpu_util = self.cpu_utilization(prior_cpu_util), for the
\* provider output metrics
sample_cpu(metrics) ==
    /\ pcW = "cpu"
    /\ cpu_util' = cpu_utilization(prior_cpu_util, metrics)
    /\ prior_cpu_util' = metrics
    /\ cpu_prev' = prior_cpu_util
    /\ readings' = << readings[2], metrics >>
    /\ fresh' = fresh \cup {"cpu"}
    /\ pcW' = "gpu"
    /\ UNCHANGED << hostVars, queue, log, cyclesAfterStop, mem_util, gpu,
                    mem_reading >>
    /\ UNCHANGED << paintVars, readVars >>
    /\ UNCHANGED << raisedAt, resumed, objectVars >>

\* the CPU sampling of one refresh
profile_cpu == \E metrics \in CpuReadings : sample_cpu(metrics)

\* gpu_temp, gpu_mem, gpu_util = self.gpu_utilization() for the provider
\* output g; a zero memory total raises ZeroDivisionError
sample_gpu(g) ==
    /\ pcW = "gpu"
    /\ IF g.mem_total = 0
       THEN pcW' = "crashed" /\ UNCHANGED gpu
       ELSE pcW' = "bars" /\ gpu' = gpu_utilization(g)
    /\ fresh' = fresh \cup {"gpu"}
    /\ UNCHANGED << hostVars, queue, log, cyclesAfterStop, mem_util, cpu_util,
                    prior_cpu_util, cpu_prev, readings, mem_reading >>
    /\ UNCHANGED << paintVars, readVars >>
    /\ raisedAt' = IF pcW' = "crashed" THEN pcW ELSE raisedAt
    /\ UNCHANGED << resumed, objectVars >>

\* the GPU sampling of one refresh
profile_gpu == \E g \in GpuReadings : sample_gpu(g)

\* self.compute_bars(cpu_util + [gpu_util, gpu_mem, gpu_temp, mem_util])
profile_bars ==
    /\ pcW = "bars"
    /\ LET res == compute_bars(self, prof_buffer, MetricList(cpu_util, gpu, mem_util), 0)
       IN  /\ prof_buffer' = res.buf
           /\ pcW' = IF res.raised THEN "crashed" ELSE "render"
    /\ UNCHANGED << hostVars, queue, log, cyclesAfterStop, out_win, prof_win >>
    /\ UNCHANGED << sampleVars, readVars >>
    /\ raisedAt' = IF pcW' = "crashed" THEN pcW ELSE raisedAt
    /\ UNCHANGED << resumed, objectVars >>

\* self.render_bars(); update = time()
profile_render ==
    /\ pcW = "render"
    /\ prof_win' = render_bars(self, prof_buffer)
    /\ pcW' = "while"
    /\ UNCHANGED << hostVars, queue, log, cyclesAfterStop, out_win, prof_buffer >>
    /\ UNCHANGED << sampleVars, readVars >>
    /\ UNCHANGED << raisedAt, resumed, objectVars >>

Worker ==
    \/ ProviderError
    \/ profile_prep
    \/ profile_while
    \/ read_join
    \/ read_clear
    \/ profile_addstr
    \/ profile_timecheck
    \/ profile_mem
    \/ profile_cpu
    \/ profile_gpu
    \/ profile_bars
    \/ profile_render

Next == Host \/ Worker

Spec == Init /\ [][Next]_vars

\* the worker thread is scheduled as long as it can take a step
FairSpec == Spec /\ WF_vars(Worker)

\* ------------------------------------------- cpu_utilization on its own

\* the largest counter advance between two snapshots of the inputs below
MaxDelta == 1

\* the per-core deltas tried: every counter falls back by one (a reset), stays,
\* or advances by up to MaxDelta
Deltas == [1..8 -> (0 - 1)..MaxDelta]

\* the prior snapshots tried for a core: every counter at least 1, so that a
\* counter can fall back by one
PriorRows == { <<1, 1, 1, 100, 1, 1, 1, 1>>, <<1, 1, 1, 1, 1, 1, 1, 1>> }

\* the current snapshots tried for a core after prior row p: p moved by every
\* delta, and p moved by 10 user ticks and 90 idle ticks
CurrentRows(p) ==
    { [k \in 1..8 |-> p[k] + d[k]] : d \in Deltas }
    \cup { [k \in 1..8 |-> p[k] + <<10, 0, 0, 90, 0, 0, 0, 0>>[k]] }

\* the provider outputs tried after prior snapshot prior: the first core over
\* CurrentRows, the other cores unchanged or advanced by one idle tick
CpuInputs(prior) ==
    { [c \in 1..NUM_CORE |-> IF c = 1 THEN r
                             ELSE [prior[c] EXCEPT ![4] = prior[c][4] + e]] :
        r \in CurrentRows(prior[1]), e \in 0..1 }

\* the profiler about to sample the CPU, after any of the prior snapshots
InitCpu ==
    /\ sys_stdout = "wrapper"
    /\ cls_stdout = "method"
    /\ queue = <<>>
    /\ run_thread = "True"
    /\ surface = "visual"
    /\ out_win = <<>>
    /\ self = PerformanceProfiler(NUM_CORE, rows, ticks)
    /\ prof_win = [i \in 0..rows - 1 |-> <<>>]
    /\ prof_buffer = EmptyBuffer(self)
    /\ pcW = "cpu"
    /\ out = <<>>
    /\ snap = <<>>
    /\ mem_util = [n |-> 0, d |-> 1]
    /\ cpu_util = <<>>
    /\ \E p \in PriorRows : prior_cpu_util = [c \in 1..NUM_CORE |-> p]
    /\ gpu = [temp |-> <<>>, mem |-> [n |-> 0, d |-> 1], util |-> <<>>]
    /\ pcH = "running"
    /\ deinits = 0
    /\ log = <<>>
    /\ ret = [i \in 1..MaxWrites |-> 0]
    /\ lo = 0
    /\ hi = 0
    /\ cyclesAfterStop = 0
    /\ teardownEffects = 0
    /\ tornAt = 0 - 1
    /\ cpu_prev = FirstPrior(self)
    /\ raisedAt = ""
    /\ w2 = NoThread
    /\ readings = << FirstPrior(self), prior_cpu_util >>
    /\ mem_reading = <<0, 0>>
    /\ fresh = {}
    /\ resumed = FALSE

NextCpu ==
    /\ pcW = "cpu"
    /\ \E metrics \in CpuInputs(prior_cpu_util) : sample_cpu(metrics)

SpecCpu == InitCpu /\ [][NextCpu]_vars

\* ------------------------------------------------------- a second start()

\* start() called again after stop(): a new thread is created, run_thread
\* set, the thread started; nothing waits for the first thread
start_again ==
    /\ pcH = "stopped"
    /\ w2.pc = "unstarted"
    /\ run_thread' = "True"
    /\ w2' = [w2 EXCEPT !.pc = "prep"]
    /\ pcH' = "running"
    /\ UNCHANGED << sys_stdout, cls_stdout, queue, surface, deinits, log,
                    cyclesAfterStop, teardownEffects, tornAt, self >>
    /\ UNCHANGED << sampleVars, paintVars, readVars, workerVars >>

\* what a step of the second thread leaves alone besides the shared objects
\* it touches
secondFrame == << hostVars, workerVars, sampleVars, out, snap, lo, hi, log,
                 cyclesAfterStop, self >>

\* profile() in the second thread: a provider call raises
second_ProviderError ==
    /\ w2.pc \in {"prep", "mem", "cpu", "gpu"}
    /\ w2' = [w2 EXCEPT !.pc = "crashed"]
    /\ UNCHANGED << secondFrame, queue, ret, paintVars >>

\* profile() in the second thread: the first call of cpu_utilization
second_prep ==
    /\ w2.pc = "prep"
    /\ \E metrics \in CpuReadings :
          w2' = [w2 EXCEPT !.cpu_util = cpu_utilization(FirstPrior(self), metrics),
                           !.prior_cpu_util = metrics,
                           !.pc = "while"]
    /\ UNCHANGED << secondFrame, queue, ret, paintVars >>

\* profile() in the second thread: while self.run_thread
second_while ==
    /\ w2.pc = "while"
    /\ w2' = [w2 EXCEPT !.pc = IF LoopCond(run_thread) THEN "read" ELSE "done"]
    /\ UNCHANGED << secondFrame, queue, ret, paintVars >>

\* profile() in the second thread: read(), first statement
second_read_join ==
    /\ w2.pc = "read"
    /\ w2' = [w2 EXCEPT !.snap = queue, !.out = read_out(queue), !.pc = "clear"]
    /\ UNCHANGED << secondFrame, queue, ret, paintVars >>

\* profile() in the second thread: read(), second statement
second_read_clear ==
    /\ w2.pc = "clear"
    /\ queue' = deque_clear(queue)
    /\ ret' = [i \in 1..MaxWrites |->
                 IF i \in IdsOf(w2.snap) THEN ret[i] + 1 ELSE ret[i]]
    /\ w2' = [w2 EXCEPT !.snap = <<>>, !.pc = "addstr"]
    /\ UNCHANGED << secondFrame, paintVars >>

\* profile() in the second thread: if out: self.out_win.addstr(out)
second_addstr ==
    /\ w2.pc = "addstr"
    /\ out_win' = IF w2.out # <<>> THEN out_win \o w2.out ELSE out_win
    /\ w2' = [w2 EXCEPT !.pc = "timecheck"]
    /\ UNCHANGED << secondFrame, queue, ret, prof_win, prof_buffer >>

\* profile() in the second thread: if time() - update >= self.refresh
second_timecheck ==
    /\ w2.pc = "timecheck"
    /\ \E next \in {"mem", "while"} : w2' = [w2 EXCEPT !.pc = next]
    /\ UNCHANGED << secondFrame, queue, ret, paintVars >>

\* profile() in the second thread: mem_util = self.mem_utilization()
second_mem ==
    /\ w2.pc = "mem"
    /\ \E m \in MemReadings :
          w2' = IF m[2] = 0 THEN [w2 EXCEPT !.pc = "crashed"]
                ELSE [w2 EXCEPT !.mem_util = mem_utilization(m[1], m[2]),
                                !.pc = "cpu"]
    /\ UNCHANGED << secondFrame, queue, ret, paintVars >>

\* profile() in the second thread: cpu_util, prior_cpu_util =
\* self.cpu_utilization(prior_cpu_util)
second_cpu ==
    /\ w2.pc = "cpu"
    /\ \E metrics \in CpuReadings :
          w2' = [w2 EXCEPT !.cpu_util = cpu_utilization(w2.prior_cpu_util, metrics),
                           !.prior_cpu_util = metrics,
                           !.pc = "gpu"]
    /\ UNCHANGED << secondFrame, queue, ret, paintVars >>

\* profile() in the second thread: gpu_temp, gpu_mem, gpu_util =
\* self.gpu_utilization()
second_gpu ==
    /\ w2.pc = "gpu"
    /\ \E g \in GpuReadings :
          w2' = IF g.mem_total = 0 THEN [w2 EXCEPT !.pc = "crashed"]
                ELSE [w2 EXCEPT !.gpu = gpu_utilization(g), !.pc = "bars"]
    /\ UNCHANGED << secondFrame, queue, ret, paintVars >>

\* profile() in the second thread: self.compute_bars(...), on the data grid
\* the two threads share
second_bars ==
    /\ w2.pc = "bars"
    /\ LET res == compute_bars(self, prof_buffer,
                                MetricList(w2.cpu_util, w2.gpu, w2.mem_util), 0)
       IN  /\ prof_buffer' = res.buf
           /\ w2' = [w2 EXCEPT !.pc = IF res.raised THEN "crashed" ELSE "render"]
    /\ UNCHANGED << secondFrame, queue, ret, out_win, prof_win >>

\* profile() in the second thread: self.render_bars()
second_render ==
    /\ w2.pc = "render"
    /\ prof_win' = render_bars(self, prof_buffer)
    /\ w2' = [w2 EXCEPT !.pc = "while"]
    /\ UNCHANGED << secondFrame, queue, ret, out_win, prof_buffer >>

Second ==
    \/ second_ProviderError
    \/ second_prep
    \/ second_while
    \/ second_read_join
    \/ second_read_clear
    \/ second_addstr
    \/ second_timecheck
    \/ second_mem
    \/ second_cpu
    \/ second_gpu
    \/ second_bars
    \/ second_render

\* a client that calls start(), stop() and start() once more, and stop()
\* again
NextRestart ==
    \/ start
    \/ main_except
    \/ stop
    \/ start_again
    \/ Worker
    \/ Second

SpecRestart == Init /\ [][NextRestart]_vars

\* ---------------------------------------------------------- the renderer

\* the largest core count, row count and bar width of the profilers built
MaxCore == 2
MaxRows == 3
MaxTicks == 2

\* the largest denominator of the fractions handed to the renderer
MaxDen == 2

\* the fractions tried: from below 0 to above 1, and +/-DBL_MAX
RenderFractions ==
    { Ratio(n, d) : n \in (0 - 1)..(MaxDen + 1), d \in 1..MaxDen }
    \cup { FloatMax, FloatMin }

\* the nvidia-smi outputs tried: temperatures and utilizations of two to four
\* characters
GpuInputs ==
    { [temp |-> t, mem_used |-> 1, mem_total |-> 4, util |-> u] :
        t \in { <<"4","5","C">>, <<"1","0","0","C">> },
        u \in { <<"0","%","\n">>, <<"3","0","%","\n">>, <<"1","0","0","%","\n">> } }

\* a started profiler whose worker is at pc of profile(), nothing written yet
AtTick(pc) ==
    /\ sys_stdout = "wrapper"
    /\ cls_stdout = "method"
    /\ queue = <<>>
    /\ run_thread = "True"
    /\ surface = "visual"
    /\ out_win = <<>>
    /\ pcW = pc
    /\ out = <<>>
    /\ snap = <<>>
    /\ pcH = "running"
    /\ deinits = 0
    /\ log = <<>>
    /\ ret = [i \in 1..MaxWrites |-> 0]
    /\ lo = 0
    /\ hi = 0
    /\ cyclesAfterStop = 0
    /\ teardownEffects = 0
    /\ tornAt = 0 - 1
    /\ raisedAt = ""
    /\ w2 = NoThread
    /\ resumed = FALSE

\* a profiler of any core count, row count and bar width, in a refresh that
\* has sampled memory and CPU: the first core over RenderFractions, core
\* c > 1 at 1/c, the memory at 1/4 or 3/2
InitRender ==
    /\ AtTick("gpu")
    /\ \E ncore \in 1..MaxCore, r \in 1..MaxRows, t \in 1..MaxTicks :
          self = PerformanceProfiler(ncore, r, t)
    /\ prof_win = [i \in 0..self.rows - 1 |-> <<>>]
    /\ prof_buffer = EmptyBuffer(self)
    /\ mem_util \in { mem_utilization(1, 4), mem_utilization(3, 2) }
    /\ \E f \in RenderFractions :
          cpu_util = [c \in 1..self.NUM_CORE |-> IF c = 1 THEN f ELSE Ratio(1, c)]
    /\ prior_cpu_util = FirstPrior(self)
    /\ gpu = [temp |-> <<>>, mem |-> [n |-> 0, d |-> 1], util |-> <<>>]
    /\ cpu_prev = FirstPrior(self)
    /\ readings = << FirstPrior(self), FirstPrior(self) >>
    /\ mem_reading = <<0, 0>>
    /\ fresh = {"mem", "cpu"}

NextRender ==
    \/ \E g \in GpuInputs : sample_gpu(g)
    \/ profile_bars
    \/ profile_render

SpecRender == InitRender /\ [][NextRender]_vars

\* ------------------------------------------------------ the memory reading

\* the largest number of a "free -m" output tried
MaxMem == 10

\* the outputs tried: every pair of numbers up to MaxMem, and the reading of
\* MemReadings
MemInputs == ((0..MaxMem) \X (0..MaxMem)) \cup MemReadings

\* the profiler about to sample memory
InitMem ==
    /\ AtTick("mem")
    /\ self = PerformanceProfiler(NUM_CORE, rows, ticks)
    /\ prof_win = [i \in 0..self.rows - 1 |-> <<>>]
    /\ prof_buffer = EmptyBuffer(self)
    /\ mem_util = [n |-> 0, d |-> 1]
    /\ cpu_util = <<>>
    /\ prior_cpu_util = FirstPrior(self)
    /\ gpu = [temp |-> <<>>, mem |-> [n |-> 0, d |-> 1], util |-> <<>>]
    /\ cpu_prev = FirstPrior(self)
    /\ readings = << FirstPrior(self), FirstPrior(self) >>
    /\ mem_reading = <<0, 0>>
    /\ fresh = {}

NextMem == \E m \in MemInputs : sample_mem(m)

SpecMem == InitMem /\ [][NextMem]_vars

\* ------------------------------------------------------------------ claims

\* the host's call of stop() has returned
StopReturned == pcH \in {"stopped", "torn", "exited"}

\* C1: every text passed to a write is returned whole by exactly one drain, the
\* one it races with or the next one: at any moment a captured write is still
\* in the buffer, or in the list of the drain in course, or was returned once
C1_NoWriteLost ==
    \A i \in 1..Len(log) :
        \/ ret[i] = 1
        \/ ret[i] = 0 /\ i \in IdsOf(queue)
        \/ ret[i] = 0 /\ pcW = "clear" /\ i \in IdsOf(snap)

\* C2: the buffer never holds more than K entries
C2_AtMostK == Len(queue) <= K

\* C3: a drain returns exactly the concatenation, in write order and with
\* nothing in between, of the texts written since the previous drain returned
C3_DrainIsConcatenation ==
    pcW = "clear" => out = ConcatAll(SubSeq(log, lo + 1, hi))

\* C6: when stop() has returned the worker is no longer running and the
\* buffer has been drained to the scrollback
C6_JoinedAndDrained ==
    StopReturned => ~WorkerRunning /\ queue = <<>>

\* C8: after deinit() the process output stream is the original stream again and
\* no write issued after the teardown is in the buffer
C8_CaptureReleased ==
    deinits > 0 =>
        /\ sys_stdout = "original"
        /\ \A i \in IdsOf(queue) : i <= tornAt

\* C9: a provider call that fails during a sampling tick does not end the worker
C9_WorkerSurvivesProviderError ==
    ~(pcW = "crashed" /\ raisedAt \in {"mem", "cpu", "gpu"})

\* C4: a drain that follows a drain with no write in between returns the
\* empty text, and the buffer is empty as long as nothing was written since
\* the last drain returned
C4_SecondDrainEmpty ==
    /\ Len(log) = lo => queue = <<>>
    /\ pcW = "clear" /\ hi = lo => out = <<>>

\* a second drain in course, after a drain that returned a write, nothing
\* written in between
C4_Witness == pcW = "clear" /\ hi = lo /\ lo > 0 /\ ret[1] = 1 /\ out = <<>>

\* C5: after stop() the worker begins at most one further sample-render cycle,
\* it leaves the loop, and once it has returned from profile() it takes no
\* further step
C5_StopObserved ==
    /\ [](cyclesAfterStop <= 1)
    /\ (run_thread = "False") ~> ~WorkerRunning
    /\ [][pcW = "done" => pcW' = "done"]_vars

\* the worker returned from profile() after one cycle begun after stop()
C5_Witness == pcW = "done" /\ cyclesAfterStop = 1 /\ run_thread = "False"

LastDelta(c) == [k \in 1..8 |-> prior_cpu_util[c][k] - cpu_prev[c][k]]

\* C10: for every core whose eight deltas are non-negative with a positive
\* total, the fraction is (total - idle delta - iowait delta) / total and lies
\* in [0,1]; 10 user ticks and 90 idle ticks give 10/100
C10_CpuFraction ==
    \A c \in 1..Len(cpu_util) :
        LET d == LastDelta(c)
            total == d[1] + d[2] + d[3] + d[4] + d[5] + d[6] + d[7] + d[8]
            f == cpu_util[c]
        IN  (\A k \in 1..8 : d[k] >= 0) /\ total > 0 =>
                /\ f.d > 0
                /\ f.n * total = (total - d[4] - d[5]) * f.d
                /\ 0 <= f.n /\ f.n <= f.d
                /\ d = <<10, 0, 0, 90, 0, 0, 0, 0>> => f.n * 10 = f.d

\* the fraction of prior [1,1,1,100,1,1,1,1] and current [11,1,1,190,1,1,1,1]
C10_Witness ==
    /\ cpu_util # <<>>
    /\ cpu_prev[1] = <<1, 1, 1, 100, 1, 1, 1, 1>>
    /\ prior_cpu_util[1] = <<11, 1, 1, 190, 1, 1, 1, 1>>
    /\ cpu_util[1] = [n |-> 10, d |-> 100]

\* C11: for every core whose total delta is zero (the first tick, or counters
\* that have not advanced) the fraction cpu_utilization returns is 0, and the
\* call returns instead of raising
C11_ZeroTotalIsZero ==
    /\ pcW # "crashed"
    /\ \A c \in 1..Len(cpu_util) :
          Total(LastDelta(c)) = 0 => cpu_util[c] = [n |-> 0, d |-> 1]

\* C12: for every core with a negative delta (a counter reset) the fraction
\* handed to the renderer is still a number of [0,1]: not negative, not above 1
C12_ResetClamped ==
    \A c \in 1..Len(cpu_util) :
        (\E k \in 1..8 : LastDelta(c)[k] < 0) =>
            /\ cpu_util[c].d > 0
            /\ 0 <= cpu_util[c].n
            /\ cpu_util[c].n <= cpu_util[c].d

\* the metrics of the refresh in course, as profile() lists them
Metrics == MetricList(cpu_util, gpu, mem_util)

\* the cell of the data grid that holds metric i, counted from 0
CellOf(i) == prof_buffer[i \div self.cols][i % self.cols]

\* a fraction clamped into [0,1]
Clamp01(f) ==
    IF f.d = 0 THEN (IF f.n > 0 THEN [n |-> 1, d |-> 1] ELSE [n |-> 0, d |-> 1])
    ELSE IF f.n < 0 THEN [n |-> 0, d |-> 1]
    ELSE IF f.n > f.d THEN [n |-> 1, d |-> 1]
    ELSE f

\* the gauge of width w for fraction f: floor(w * clamp(f)) bars, then blanks
Gauge(w, f) ==
    LET filled == (w * Clamp01(f).n) \div Clamp01(f).d
    IN  <<"[">> \o Rep("|", filled) \o Rep(" ", w - filled) \o <<"]">>

\* C13: for every width and every fraction, below 0 and above 1 included, the
\* bar is "[", floor(w * clamp(fraction, 0, 1)) bars, blanks up to w, "]",
\* and is w + 2 characters long
C13_BarShape ==
    pcW = "render" =>
        \A i \in 1..Len(Metrics) :
            ~Metrics[i].str =>
                /\ CellOf(i - 1) = Gauge(self.ticks, Metrics[i].v)
                /\ Len(CellOf(i - 1)) = self.ticks + 2

\* the grid cells the metrics 0..n-1 are mapped to
MetricCells ==
    { << i \div self.cols, i % self.cols >> :
        i \in 0..(self.NUM_CORE + Len(GPU_COL) - 1) }

\* C14: cols is ceil(n / rows) for the n = NUM_CORE + 4 metrics; metric i goes
\* to cell (i div cols, i mod cols), the n cells are distinct and inside the
\* rows x cols grid, compute_bars fills exactly these, and the rows*cols - n
\* cells after them are the ones with an empty label
C14_Layout ==
    LET n == self.NUM_CORE + Len(GPU_COL)
    IN  /\ self.cols * self.rows >= n
        /\ (self.cols - 1) * self.rows < n
        /\ Cardinality(MetricCells) = n
        /\ MetricCells \subseteq (0..self.rows - 1) \X (0..self.cols - 1)
        /\ \A r \in 0..self.rows - 1, c \in 0..self.cols - 1 :
              /\ self.STAT_COL[r][c] = <<>> <=> r * self.cols + c >= n
              /\ self.STAT_COL[r][c] = <<>> <=> <<r, c>> \notin MetricCells
              /\ pcW = "render" =>
                    (prof_buffer[r][c] # <<>> <=> <<r, c>> \in MetricCells)

\* a grid of three rows for five metrics: two columns, one cell left over
C14_Witness ==
    /\ pcW = "render"
    /\ self.NUM_CORE = 1 /\ self.rows = 3 /\ self.cols = 2
    /\ prof_buffer[2][0] # <<>>
    /\ prof_buffer[2][1] = <<>> /\ self.STAT_COL[2][1] = <<>>

\* the number a one-digit text stands for
DigitValue(ch) == CHOOSE k \in 0..9 : Digit(k) = ch

RECURSIVE NumberOf(_)
\* the number a text of digits stands for
NumberOf(ds) ==
    IF ds = <<>> THEN 0
    ELSE 10 * NumberOf(SubSeq(ds, 1, Len(ds) - 1)) + DigitValue(ds[Len(ds)])

\* the percentage of a text such as "30%"
PercentOf(text) == NumberOf(SubSeq(text, 1, Len(text) - 1))

\* C15: the GPU utilization handed to the renderer is a fraction, the
\* reported percentage / 100, in [0,1], and its cell is the bar gauge of that
\* fraction, not a text
C15_GpuFractionBar ==
    pcW = "render" =>
        LET m == Metrics[self.NUM_CORE + 1]
            pct == PercentOf(gpu.util)
        IN  /\ ~m.str
            /\ m.v.d > 0 /\ m.v.n * 100 = pct * m.v.d
            /\ 0 <= m.v.n /\ m.v.n <= m.v.d
            /\ CellOf(self.NUM_CORE) = Gauge(self.ticks, Ratio(pct, 100))

\* C16: for every reading of two non-negative numbers with a positive divisor
\* the memory fraction is used / total clamped into [0,1]; used 2048 of total
\* 8192 is 0.25
C16_MemFraction ==
    pcW = "cpu" /\ mem_reading[1] >= 0 /\ mem_reading[2] > 0 =>
        /\ mem_util.d > 0
        /\ 0 <= mem_util.n /\ mem_util.n <= mem_util.d
        /\ mem_util.n * Clamp01(Ratio(mem_reading[1], mem_reading[2])).d
              = Clamp01(Ratio(mem_reading[1], mem_reading[2])).n * mem_util.d
        /\ mem_reading = <<2048, 8192>> => mem_util.n * 4 = mem_util.d

\* C17: the cell of a text metric is as wide as a bar cell, ticks + 2
\* characters, whatever the length of the text
C17_ScalarWidth ==
    pcW = "render" =>
        \A i \in 1..Len(Metrics) :
            Metrics[i].str => Len(CellOf(i - 1)) = self.ticks + 2

\* the last refresh sampled everything and painted, and nothing has been
\* sampled since
Painted ==
    /\ fresh = {"mem", "cpu", "gpu"}
    /\ pcW \in {"while", "read", "clear", "addstr", "timecheck", "done"}

\* the cells of the data grid whose label is the text label
CellsLabelled(label) ==
    { rc \in (0..self.rows - 1) \X (0..self.cols - 1) :
        self.STAT_COL[rc[1]][rc[2]] = label }

\* exactly one cell carries the label, and it holds the text value
SitsUnder(label, value) ==
    /\ Cardinality(CellsLabelled(label)) = 1
    /\ \A rc \in CellsLabelled(label) : prof_buffer[rc[1]][rc[2]] = value

\* the row of the gauge window for row r of the two grids
PaintedRow(r) ==
    Join(<<" ">>, [c \in 1..self.cols |->
                     self.STAT_COL[r][c - 1] \o <<" ">> \o prof_buffer[r][c - 1]])

\* C20: after a render tick, for every core count and row count, the bar of
\* core c sits in the cell labelled CPUc, the GPU utilization under GPU0, the
\* GPU memory under VRAM, the temperature under TEMP and the memory under
\* DRAM; the cells without a label hold nothing; and the gauge window shows
\* every label next to its cell
C20_ValuesUnderLabels ==
    pcW = "render" \/ Painted =>
        /\ \A c \in 0..self.NUM_CORE - 1 :
              SitsUnder(<<"C","P","U">> \o <<Digit(c)>> \o <<" ">>,
                        Bar(self, cpu_util[c + 1]))
        /\ SitsUnder(<<"G","P","U","0"," ">>, Scalar(self, gpu.util))
        /\ SitsUnder(<<"V","R","A","M"," ">>, Bar(self, gpu.mem))
        /\ SitsUnder(<<"T","E","M","P"," ">>, Scalar(self, gpu.temp))
        /\ SitsUnder(<<" ","D","R","A","M"," ">>, Bar(self, mem_util))
        /\ \A rc \in CellsLabelled(<<>>) : prof_buffer[rc[1]][rc[2]] = <<>>
        /\ Painted => \A r \in 0..self.rows - 1 : prof_win[r] = PaintedRow(r)

\* two cores in a grid of two rows, painted: VRAM opens the second row
C20_Witness ==
    /\ Painted
    /\ self.NUM_CORE = 2 /\ self.rows = 2 /\ self.cols = 3
    /\ self.STAT_COL[1][0] = <<"V","R","A","M"," ">>
    /\ prof_buffer[1][0] = Bar(self, gpu.mem)
    /\ prof_win[1] # <<>>

\* the fraction of core c between the last two /proc/stat outputs
FractionOfReadings(c) ==
    LET d == [k \in 1..8 |-> readings[2][c][k] - readings[1][c][k]]
    IN  NanToNumDivide(Usage(d), Total(d))

\* C18: the CPU fractions of a refresh come from the snapshot of that refresh
\* and the snapshot of the sampling just before it: the prior snapshot is
\* the latest provider output after every sampling, never an older one; and
\* when a refresh renders, memory, CPU and GPU have all been sampled in it
\* and the bars drawn are those of its fractions
C18_SamplesInOrder ==
    /\ prior_cpu_util = readings[2]
    /\ cpu_util # <<>> =>
          \A c \in 1..Len(cpu_util) : cpu_util[c] = FractionOfReadings(c)
    /\ pcW = "render" =>
          /\ fresh = {"mem", "cpu", "gpu"}
          /\ \A c \in 1..self.NUM_CORE :
                CellOf(c - 1) = Bar(self, FractionOfReadings(c))

\* a refresh after the first, rendering the fractions of two different
\* snapshots, the older one taken by the refresh before
C18_Witness ==
    /\ pcW = "render"
    /\ readings[1][1] = <<0, 0, 0, 100, 0, 0, 0, 0>>
    /\ readings[2][1] = <<10, 0, 0, 190, 0, 0, 0, 0>>
    /\ cpu_util[1] = [n |-> 10, d |-> 100]

\* a thread at pc is inside an iteration of the loop of profile()
InLoopBody(pc) ==
    pc \in {"read", "clear", "addstr", "timecheck", "mem", "cpu", "gpu", "bars",
            "render"}

\* C19: whatever start() and stop() calls were made, at most one thread is
\* inside the loop of profile() (draining the queue, sampling or painting),
\* and a thread that was asked to stop does not begin another iteration
\* because of a later start()
C19_OneWorker ==
    /\ ~(InLoopBody(pcW) /\ InLoopBody(w2.pc))
    /\ ~resumed

=============================================================================
